---- MODULE Spec2Model ----
(***************************************************************************)
(* A model of the openai_mcp package: the image-source classifier and      *)
(* loader, the response image extractor (image_utils.py), the lazily       *)
(* constructed client (client.py), the chat and generate services          *)
(* (services.py) and the tool layer over them (server.py).                 *)
(*                                                                         *)
(* Python values are tagged records, strings are sequences of one-         *)
(* character strings, and a call either returns or raises:                 *)
(*   Ret(v)  = [k |-> "return", v |-> v]                                   *)
(*   Raise(e) = [k |-> "raise", e |-> [type |-> ..., text |-> ...]]        *)
(***************************************************************************)
EXTENDS Integers, Sequences, FiniteSets, TLC

VARIABLES
    source_str,   \* classifier harness: the raw string handed to from_string
    classified,   \* classifier harness: what from_string did with it
    api_response, \* extractor harness: the response handed to extract
    net_up,       \* extractor harness: whether URL fetches succeed
    extracted,    \* extractor harness: what extract did with it
    env,          \* the process environment (os.environ), fixed at start
    tool_decorator, \* what @mcp.tool() returns: the function or a tool object
    async_client, \* client.py's global _async_client: 0 for None, else a handle
    constructed,  \* how many times AsyncOpenAI(...) has been constructed
    calls,        \* the invocations in progress, one record per caller
    resolved,     \* resolver harness: what resolve did with source_str
    resolved_again, \* resolver harness: what resolve did with its own result
    prompt,       \* builder harness: the MultiModalPrompt handed to build
    built_message \* builder harness: what build did with it

builder_vars == <<resolved, resolved_again, prompt, built_message>>
harness_vars ==
    <<source_str, classified, api_response, net_up, extracted,
      resolved, resolved_again, prompt, built_message>>
service_vars == <<env, tool_decorator, async_client, constructed, calls>>
vars == <<source_str, classified, api_response, net_up, extracted,
          env, tool_decorator, async_client, constructed, calls,
          resolved, resolved_again, prompt, built_message>>

-----------------------------------------------------------------------------
(* Bounds of the model. *)

\* Longest sample string of the classifier harness, counted in pieces.
MaxPieces == 3

\* Longest images list and longest structured content of a sample response.
MaxItems == 2

\* Longest reference_images argument of a generate invocation.
MaxRefs == 2

\* Concurrent invocations (callers) of the concurrency specification.
MaxCalls == 2

\* The interpreter's recursion limit, in frames of the chat tool.
MaxDepth == 3

-----------------------------------------------------------------------------
(* Python values and call outcomes. *)

PyNone == [t |-> "none"]
PyStr(s) == [t |-> "str", s |-> s]
PyInt(n) == [t |-> "int", n |-> n]
PyList(l) == [t |-> "list", l |-> l]
PyDict(d) == [t |-> "dict", d |-> d]
PyObj(a) == [t |-> "obj", a |-> a]
PyImage(id, mode) == [t |-> "image", id |-> id, mode |-> mode]

Exc(type, text) == [type |-> type, text |-> text]
Ret(v) == [k |-> "return", v |-> v]
Raise(e) == [k |-> "raise", e |-> e]
Pending == [k |-> "pending"]

\* Python truthiness (bool(v)).
Truthy(v) ==
    CASE v.t = "none" -> FALSE
      [] v.t = "str" -> v.s # <<>>
      [] v.t = "int" -> v.n # 0
      [] v.t = "list" -> v.l # <<>>
      [] v.t = "dict" -> DOMAIN v.d # {}
      [] OTHER -> TRUE

\* a or b
PyOr(a, b) == IF Truthy(a) THEN a ELSE b

\* dict.get(key), default None
DictGet(v, key) == IF key \in DOMAIN v.d THEN v.d[key] ELSE PyNone

\* hasattr(v, name)
HasAttr(v, name) == v.t = "obj" /\ name \in DOMAIN v.a

-----------------------------------------------------------------------------
(* Strings. *)

Whitespace == {" ", "\n", "\r", "\t"}

RECURSIVE LStrip(_)
LStrip(s) == IF s # <<>> /\ Head(s) \in Whitespace THEN LStrip(Tail(s)) ELSE s

RECURSIVE RStrip(_)
RStrip(s) ==
    IF s # <<>> /\ s[Len(s)] \in Whitespace
    THEN RStrip(SubSeq(s, 1, Len(s) - 1))
    ELSE s

\* str.strip()
Strip(s) == RStrip(LStrip(s))

\* str.startswith(p)
StartsWith(s, p) == Len(s) >= Len(p) /\ SubSeq(s, 1, Len(p)) = p

\* str.find(c) for a one-character c: the first index (from 1), 0 when absent.
Find(s, c) ==
    IF \E i \in 1..Len(s) : s[i] = c
    THEN CHOOSE i \in 1..Len(s) : s[i] = c /\ \A j \in 1..(i - 1) : s[j] # c
    ELSE 0

DataImage == <<"d", "a", "t", "a", ":", "i", "m", "a", "g", "e">>
DataImageSlash == <<"d", "a", "t", "a", ":", "i", "m", "a", "g", "e", "/">>
HttpScheme == <<"h", "t", "t", "p", ":", "/", "/">>
HttpsScheme == <<"h", "t", "t", "p", "s", ":", "/", "/">>

-----------------------------------------------------------------------------
(* ImageSource.from_string *)

ImageSource(source, source_type) ==
    [source |-> source, source_type |-> source_type]

from_string(v) ==
    IF ~Truthy(v)
    THEN Raise(Exc("ValueError", "Image source cannot be empty"))
    ELSE IF v.t # "str"
    THEN Raise(Exc("AttributeError", "object has no attribute 'strip'"))
    ELSE LET s == Strip(v.s) IN
         IF StartsWith(s, DataImageSlash) THEN Ret(ImageSource(s, "base64"))
         ELSE IF StartsWith(s, HttpScheme) \/ StartsWith(s, HttpsScheme)
         THEN Ret(ImageSource(s, "url"))
         ELSE Ret(ImageSource(s, "file"))

-----------------------------------------------------------------------------
(* ImageLoader *)

B64Alphabet ==
    {"a", "b", "c", "d", "e", "f", "g", "h", "i", "j", "k", "l", "m", "n", "o",
     "p", "q", "r", "s", "t", "u", "v", "w", "x", "y", "z", "A", "B", "C", "D",
     "E", "F", "G", "H", "I", "J", "K", "L", "M", "N", "O", "P", "Q", "R", "S",
     "T", "U", "V", "W", "X", "Y", "Z", "0", "1", "2", "3", "4", "5", "6", "7",
     "8", "9", "+", "/"}

\* The images of the model and their pixel modes.  The base64 text of image c
\* is "i", c and any number of "A"s (Payload below).
ImageModes == [c \in {"1", "2", "3"} |-> IF c = "3" THEN "RGBA" ELSE "RGB"]

\* base64.b64decode(cleaned) followed by Image.open: the decoder drops every
\* character outside the base64 alphabet, and the bytes that remain are an
\* image only when they are the text of one.
DecodeImage(s) ==
    LET f == SelectSeq(s, LAMBDA c : c \in B64Alphabet) IN
    IF /\ Len(f) >= 2
       /\ f[1] = "i"
       /\ f[2] \in DOMAIN ImageModes
       /\ \A i \in 3..Len(f) : f[i] = "A"
    THEN Ret(PyImage(f[2], ImageModes[f[2]]))
    ELSE Raise(Exc("UnidentifiedImageError", "cannot identify image file"))

load_from_base64(v) ==
    IF v.t # "str"
    THEN Raise(Exc("AttributeError", "object has no attribute 'replace'"))
    ELSE DecodeImage(SelectSeq(v.s, LAMBDA c : c \notin {"\n", "\r", " "}))

load_from_data_url(data_url) ==
    LET comma_idx == Find(data_url, ",") IN
    IF comma_idx = 0
    THEN Raise(Exc("ValueError", "Invalid data URL format"))
    ELSE load_from_base64(PyStr(SubSeq(data_url, comma_idx + 1, Len(data_url))))

\* The one URL that serves an image (image 3) when the network is up.
WebUrl == <<"h", "t", "t", "p", ":", "/", "/", "a", ".", "i", "o", "/", "x">>

load_from_url(url, net) ==
    IF net /\ url = WebUrl
    THEN Ret(PyImage("3", ImageModes["3"]))
    ELSE Raise(Exc("RuntimeError", "Failed to load image from URL"))

\* The files on disk: an image file, a text file and the working directory.
RefPng == <<"/", "r", ".", "p", "n", "g">>
RefRgba == <<"/", "a", ".", "p", "n", "g">>
RefTxt == <<"/", "n", ".", "t", "x", "t">>
MissingPng == <<"/", "g", "o", "n", "e", ".", "p", "n", "g">>
HomeDir == <<"/", "h", "o", "m", "e">>
FileSystem ==
    [p \in {RefPng, RefRgba, RefTxt, <<".">>} |->
        IF p = RefPng THEN PyImage("1", ImageModes["1"])
        ELSE IF p = RefRgba THEN PyImage("3", ImageModes["3"])
        ELSE PyNone]

\* Path(s).expanduser(): the empty path is ".", a leading "~" is the home.
ExpandUser(s) ==
    IF s = <<>> THEN <<".">>
    ELSE IF s[1] = "~" /\ (Len(s) = 1 \/ s[2] = "/") THEN HomeDir \o Tail(s)
    ELSE s

load_from_file(file_path) ==
    LET path == ExpandUser(file_path) IN
    IF path \notin DOMAIN FileSystem
    THEN Raise(Exc("FileNotFoundError", "Image file not found"))
    ELSE IF FileSystem[path].t = "image" THEN Ret(FileSystem[path])
    ELSE Raise(Exc("UnidentifiedImageError", "cannot identify image file"))

load(source, net) ==
    IF source.source_type = "url" THEN load_from_url(source.source, net)
    ELSE IF source.source_type = "file" THEN load_from_file(source.source)
    ELSE IF source.source_type = "base64"
    THEN IF StartsWith(source.source, DataImageSlash)
         THEN load_from_data_url(source.source)
         ELSE load_from_base64(PyStr(source.source))
    ELSE Raise(Exc("ValueError", "Unsupported image source type"))

\* ImageLoader.load(ImageSource.from_string(v)), as every strategy calls it.
LoadSource(v, net) ==
    LET loaded(src) == IF src.k = "raise" THEN src ELSE load(src.v, net)
    IN loaded(from_string(v))

-----------------------------------------------------------------------------
(* ImageExtractor *)

KeyChars ==
    [image_url |-> <<"i", "m", "a", "g", "e", "_", "u", "r", "l">>,
     url |-> <<"u", "r", "l">>,
     inline_data |-> <<"i", "n", "l", "i", "n", "e", "_", "d", "a", "t", "a">>,
     data |-> <<"d", "a", "t", "a">>]

SetToSeq(S) ==
    CHOOSE f \in [1..Cardinality(S) -> S] : \A x \in S : \E i \in DOMAIN f : f[i] = x

\* iter(v): the items a for loop over v visits, or the TypeError it raises.
Iterate(v) ==
    CASE v.t = "list" -> Ret(v.l)
      [] v.t = "str" -> Ret([i \in 1..Len(v.s) |-> PyStr(<<v.s[i]>>)])
      [] v.t = "dict" -> Ret(SetToSeq({PyStr(KeyChars[key]) : key \in DOMAIN v.d}))
      [] OTHER -> Raise(Exc("TypeError", "object is not iterable"))

RECURSIVE ScanImages(_, _)
ScanImages(items, net) ==
    IF items = <<>> THEN Ret(PyNone)
    ELSE LET img == Head(items) IN
         IF img.t # "dict" THEN ScanImages(Tail(items), net)
         ELSE LET image_url == PyOr(DictGet(img, "image_url"), DictGet(img, "url")) IN
              IF ~Truthy(image_url) THEN ScanImages(Tail(items), net)
              ELSE LET or_next(r) ==
                           IF r.k = "return" THEN r ELSE ScanImages(Tail(items), net)
                   IN or_next(LoadSource(image_url, net))

extract_from_images_field(message, net) ==
    IF ~(HasAttr(message, "images") /\ Truthy(message.a.images))
    THEN Ret(PyNone)
    ELSE LET it == Iterate(message.a.images) IN
         IF it.k = "raise" THEN it ELSE ScanImages(it.v, net)

RECURSIVE ScanContent(_, _)
ScanContent(items, net) ==
    IF items = <<>> THEN Ret(PyNone)
    ELSE LET item == Head(items) IN
         IF item.t # "dict" THEN ScanContent(Tail(items), net)
         ELSE LET field == DictGet(item, "image_url")
                  image_url == IF field.t = "dict" THEN DictGet(field, "url") ELSE field
                  inline_data == DictGet(item, "inline_data")
                  base64_data == DictGet(inline_data, "data")
                  or_next(r) ==
                      IF r.k = "return" THEN r ELSE ScanContent(Tail(items), net)
              IN
              IF Truthy(field) /\ Truthy(image_url)
              THEN or_next(LoadSource(image_url, net))
              ELSE IF Truthy(inline_data) /\ inline_data.t = "dict" /\ Truthy(base64_data)
              THEN or_next(load_from_base64(base64_data))
              ELSE ScanContent(Tail(items), net)

extract_from_content_list(message, net) ==
    IF ~HasAttr(message, "content") \/ message.a.content.t # "list"
    THEN Ret(PyNone)
    ELSE ScanContent(message.a.content.l, net)

HasAt(s, i, p) == i + Len(p) - 1 <= Len(s) /\ SubSeq(s, i, i + Len(p) - 1) = p

\* "](data:image/", what the markdown pattern needs after the alt text.
MdPrefix == <<"]", "(">> \o DataImageSlash

\* The places <<i, j>> where r"!\[.*?\]\((data:image/[^)]+)\)" matches: "![" at
\* i, no line break up to the "](data:image/" at j, then at least one
\* character that is not ")" and, later, a ")".
MdMatches(s) ==
    {m \in {i \in 1..Len(s) : HasAt(s, i, <<"!", "[">>)} \X (1..Len(s)) :
        /\ m[2] >= m[1] + 2
        /\ HasAt(s, m[2], MdPrefix)
        /\ \A x \in (m[1] + 2)..(m[2] - 1) : s[x] # "\n"
        /\ m[2] + Len(MdPrefix) <= Len(s)
        /\ s[m[2] + Len(MdPrefix)] # ")"
        /\ \E e \in (m[2] + Len(MdPrefix) + 1)..Len(s) : s[e] = ")"}

\* re.search of that pattern: the leftmost match, its alt text the shortest;
\* group(1) runs from "data:image/" up to the first ")".
MarkdownMatch(s) ==
    IF MdMatches(s) = {} THEN [found |-> FALSE, url |-> <<>>]
    ELSE LET m == CHOOSE a \in MdMatches(s) :
                      \A b \in MdMatches(s) :
                          a[1] < b[1] \/ (a[1] = b[1] /\ a[2] <= b[2])
             from == m[2] + 2
             rest == SubSeq(s, from, Len(s))
         IN [found |-> TRUE, url |-> SubSeq(rest, 1, Find(rest, ")") - 1)]

Payload(c, n) == <<"i", c>> \o [x \in 1..n |-> "A"]
PngBase64 == <<"p", "n", "g", ";", "b", "a", "s", "e", "6", "4", ",">>
DataUrl(c) == DataImageSlash \o PngBase64 \o Payload(c, 0)

RECURSIVE JoinJson(_)
JoinJson(texts) ==
    IF texts = <<>> THEN <<>>
    ELSE IF Len(texts) = 1 THEN texts[1]
    ELSE texts[1] \o <<",">> \o JoinJson(Tail(texts))

KeyOrder == <<"image_url", "url", "inline_data", "data">>

\* json.dumps(v, separators=(",", ":")) of the values the samples use.
RECURSIVE ToJson(_)
ToJson(v) ==
    CASE v.t = "str" -> <<"\"">> \o v.s \o <<"\"">>
      [] v.t = "list" ->
            <<"[">> \o JoinJson([i \in DOMAIN v.l |-> ToJson(v.l[i])]) \o <<"]">>
      [] v.t = "dict" ->
            LET keys == SelectSeq(KeyOrder, LAMBDA key : key \in DOMAIN v.d) IN
            <<"{">>
            \o JoinJson([i \in DOMAIN keys |->
                   <<"\"">> \o KeyChars[keys[i]] \o <<"\"", ":">> \o ToJson(v.d[keys[i]])])
            \o <<"}">>
      [] OTHER -> <<"n", "u", "l", "l">>

\* The JSON documents among the sample strings.
JsonDocuments ==
    {PyList(<<>>),
     PyList(<<PyDict([image_url |-> PyStr(DataUrl("2"))])>>),
     PyList(<<PyStr(Payload("2", 100))>>),
     PyDict([url |-> PyStr(DataUrl("2"))])}

\* json.loads(s): the document whose text s is; any other sample string
\* is not JSON.
ParseJson(s) ==
    IF \E doc \in JsonDocuments : ToJson(doc) = s
    THEN Ret(CHOOSE doc \in JsonDocuments : ToJson(doc) = s)
    ELSE Raise(Exc("JSONDecodeError", "Expecting value"))

\* len(content) above which the raw base64 probe runs.
RawBase64MinLen == 100

extract_from_content_string(message, net) ==
    IF ~HasAttr(message, "content") \/ message.a.content.t # "str"
    THEN Ret(PyNone)
    ELSE LET content == message.a.content.s
             \* One probe after another: a is the markdown data URL, b the
             \* content as a data URL, c the content as a JSON list, d the
             \* content as raw base64.
             probe_d(d) ==
                 IF Len(content) > RawBase64MinLen /\ d.k = "return" THEN d
                 ELSE Ret(PyNone)
             probe_c(parsed, c) ==
                 IF parsed.k = "return" /\ parsed.v.t = "list" /\ c.k = "return" THEN c
                 ELSE probe_d(load_from_base64(PyStr(content)))
             from_json(parsed) ==
                 probe_c(parsed, extract_from_content_list(PyObj([content |-> parsed.v]), net))
             probe_b(b) ==
                 IF StartsWith(content, DataImage) /\ b.k = "return" THEN b
                 ELSE from_json(ParseJson(content))
             probe_a(markdown_match, a) ==
                 IF markdown_match.found /\ a.k = "return" THEN a
                 ELSE probe_b(load_from_data_url(content))
             from_match(markdown_match) ==
                 probe_a(markdown_match, load_from_data_url(markdown_match.url))
         IN from_match(MarkdownMatch(content))

\* v[0]
Index0(v) ==
    CASE v.t = "list" ->
            IF v.l = <<>> THEN Raise(Exc("IndexError", "list index out of range"))
            ELSE Ret(v.l[1])
      [] v.t = "str" ->
            IF v.s = <<>> THEN Raise(Exc("IndexError", "string index out of range"))
            ELSE Ret(PyStr(<<v.s[1]>>))
      [] v.t = "dict" -> Raise(Exc("KeyError", "0"))
      [] OTHER -> Raise(Exc("TypeError", "object is not subscriptable"))

\* v.name
GetAttr(v, name) ==
    IF HasAttr(v, name) THEN Ret(v.a[name])
    ELSE Raise(Exc("AttributeError", "object has no attribute"))

\* response.model_dump(): the object as nested dictionaries.
RECURSIVE ModelDump(_)
ModelDump(v) ==
    CASE v.t = "obj" ->
            PyDict([key \in DOMAIN v.a \ {"model_dump"} |-> ModelDump(v.a[key])])
      [] v.t = "list" -> PyList([i \in DOMAIN v.l |-> ModelDump(v.l[i])])
      [] OTHER -> v

extract_from_response_dict(response, net) ==
    LET response_dict ==
            IF HasAttr(response, "model_dump") THEN ModelDump(response)
            ELSE PyDict(response.a)
        choices ==
            IF "choices" \in DOMAIN response_dict.d THEN response_dict.d.choices
            ELSE PyList(<<>>)
        first == Index0(choices)
        choice == first.v
        message ==
            IF choice.t = "dict" /\ "message" \in DOMAIN choice.d
            THEN choice.d.message
            ELSE PyDict(<<>>)
        content == DictGet(message, "content")
        r == load_from_data_url(content.s)
    IN
    IF ~Truthy(choices) \/ first.k = "raise" \/ message.t # "dict" THEN Ret(PyNone)
    ELSE IF content.t = "str" /\ StartsWith(content.s, DataImage) /\ r.k = "return"
    THEN r
    ELSE Ret(PyNone)

\* response.choices[0].message
MessageOf(response) ==
    LET choices == GetAttr(response, "choices")
        first == Index0(choices.v)
    IN
    IF choices.k = "raise" THEN choices
    ELSE IF first.k = "raise" THEN first
    ELSE GetAttr(first.v, "message")

\* A mutant of the strategy list: the string-content strategy runs first.
strategies_string_first ==
    <<"extract_from_content_string", "extract_from_images_field",
      "extract_from_content_list", "extract_from_response_dict">>

strategies ==
    <<"extract_from_images_field", "extract_from_content_list",
      "extract_from_content_string", "extract_from_response_dict">>

RunStrategy(strategy, message, resp, net) ==
    CASE strategy = "extract_from_images_field" -> extract_from_images_field(message, net)
      [] strategy = "extract_from_content_list" -> extract_from_content_list(message, net)
      [] strategy = "extract_from_content_string" -> extract_from_content_string(message, net)
      [] strategy = "extract_from_response_dict" -> extract_from_response_dict(resp, net)

\* The loop over the strategies.  ran lists the strategies called, in order,
\* and by names the one whose image is returned.
RECURSIVE TryStrategies(_, _, _, _, _)
TryStrategies(order, message, resp, net, ran) ==
    IF order = <<>> THEN [out |-> Ret(PyNone), ran |-> ran, by |-> "none"]
    ELSE LET now == Append(ran, Head(order))
             tried(image) ==
                 IF image.k = "raise" THEN [out |-> image, ran |-> now, by |-> "none"]
                 ELSE IF Truthy(image.v) THEN [out |-> image, ran |-> now, by |-> Head(order)]
                 ELSE TryStrategies(Tail(order), message, resp, net, now)
         IN tried(RunStrategy(Head(order), message, resp, net))

\* The body of extract's try block.
ExtractBody(resp, net) ==
    LET with(message) ==
            IF message.k = "raise" THEN [out |-> message, ran |-> <<>>, by |-> "none"]
            ELSE TryStrategies(strategies, message.v, resp, net, <<>>)
    IN with(MessageOf(resp))

\* A mutant of extract: the body with no try around it.
extract_without_try(resp, net) == ExtractBody(resp, net)

extract(resp, net) ==
    LET guarded(body) ==
            IF body.out.k = "raise"
            THEN [out |-> Ret(PyNone), ran |-> body.ran, by |-> "none"]
            ELSE body
    IN guarded(ExtractBody(resp, net))

-----------------------------------------------------------------------------
(* ReferenceImageResolver and UserMessageBuilder *)

EndsWith(s, p) == Len(s) >= Len(p) /\ SubSeq(s, Len(s) - Len(p) + 1, Len(s)) = p

ImagePng == <<"i", "m", "a", "g", "e", "/", "p", "n", "g">>
TextPlain == <<"t", "e", "x", "t", "/", "p", "l", "a", "i", "n">>

\* mimetypes.guess_type(str(path))[0] for the extensions of the files on
\* disk; <<>> stands for None, the answer for every other name.
GuessType(path) ==
    IF EndsWith(path, <<".", "p", "n", "g">>) THEN ImagePng
    ELSE IF EndsWith(path, <<".", "t", "x", "t">>) THEN TextPlain
    ELSE <<>>

\* The paths that are directories.
Directories == {<<".">>}

\* base64.b64encode(path.read_bytes()): the base64 text of an image file is
\* the text DecodeImage reads back, that of any other file a text of its own.
FileBase64(path) ==
    IF FileSystem[path].t = "image" THEN Payload(FileSystem[path].id, 0)
    ELSE <<"a", "G", "k", "=">>

Base64Comma == <<";", "b", "a", "s", "e", "6", "4", ",">>

file_to_data_url(path) ==
    IF path \notin DOMAIN FileSystem
    THEN Raise(Exc("FileNotFoundError", "Reference image file not found"))
    ELSE IF path \in Directories
    THEN Raise(Exc("IsADirectoryError", "Is a directory"))
    ELSE LET guess == GuessType(path)
             mime == IF guess = <<>> THEN ImagePng ELSE guess
         IN Ret(<<"d", "a", "t", "a", ":">> \o mime \o Base64Comma \o FileBase64(path))

\* ReferenceImageResolver.resolve(source), source a string.
resolve(source) ==
    LET resolved_as(img_source) ==
            IF img_source.k = "raise" THEN img_source
            ELSE IF img_source.v.source_type \in {"url", "base64"}
            THEN Ret(img_source.v.source)
            ELSE file_to_data_url(ExpandUser(img_source.v.source))
    IN resolved_as(from_string(PyStr(source)))

\* A mutant of ResolveAll: a reference that does not resolve is skipped.
RECURSIVE ResolveAllSkipping(_)
ResolveAllSkipping(reference_images) ==
    IF reference_images = <<>> THEN Ret(<<>>)
    ELSE LET appended(resolved_url, rest) ==
                 IF resolved_url.k = "raise" THEN rest
                 ELSE Ret(<<[type |-> "image_url", image_url |-> [url |-> resolved_url.v]]>>
                          \o rest.v)
         IN appended(resolve(Head(reference_images)),
                     ResolveAllSkipping(Tail(reference_images)))

\* The loop of build (lines 378-380): the parts appended for the reference
\* images, or the exception of the first resolve that raises.
RECURSIVE ResolveAll(_)
ResolveAll(reference_images) ==
    IF reference_images = <<>> THEN Ret(<<>>)
    ELSE LET appended(resolved_url, rest) ==
                 IF resolved_url.k = "raise" THEN resolved_url
                 ELSE IF rest.k = "raise" THEN rest
                 ELSE Ret(<<[type |-> "image_url", image_url |-> [url |-> resolved_url.v]]>>
                          \o rest.v)
         IN appended(resolve(Head(reference_images)), ResolveAll(Tail(reference_images)))

\* UserMessageBuilder.build(prompt)
build(p) ==
    LET message(parts) ==
            IF parts.k = "raise" THEN parts
            ELSE Ret([role |-> "user",
                      content |-> <<[type |-> "text", text |-> p.text]>> \o parts.v])
    IN message(ResolveAll(p.reference_images))

-----------------------------------------------------------------------------
(* client.py: the environment and the lazily constructed client. *)

\* An optional argument that was not given (Python's None) among strings.
None == "<None>"

\* A local variable no assignment has reached yet.
Unbound == "<unbound>"

NoExc == Exc("", "")

\* a or b, for optional strings.
StrOr(a, b) == IF a = None \/ a = "" THEN b ELSE a

\* os.getenv(name, default), and bool(os.getenv(name)).
Getenv(e, name, default) == IF name \in DOMAIN e THEN e[name] ELSE default
EnvSet(e, name) == name \in DOMAIN e /\ e[name] # ""

\* A mutant of get_async_client: no test of the global before constructing.
get_async_client_unguarded(client, built, e) ==
    IF ~EnvSet(e, "OPENAI_API_KEY")
    THEN [ok |-> FALSE, handle |-> 0, client |-> client, built |-> built,
          e |-> Exc("ValueError", "OPENAI_API_KEY environment variable is required")]
    ELSE [ok |-> TRUE, handle |-> built + 1, client |-> built + 1,
          built |-> built + 1, e |-> NoExc]

\* get_async_client(): client is the global _async_client (0 for None), built
\* counts the AsyncOpenAI constructions so far, and the handle constructed by
\* the n-th construction is n.  Gives the handle returned or the exception,
\* and the new global and count.
get_async_client(client, built, e) ==
    IF client = 0
    THEN IF ~EnvSet(e, "OPENAI_API_KEY")
         THEN [ok |-> FALSE, handle |-> 0, client |-> client, built |-> built,
               e |-> Exc("ValueError", "OPENAI_API_KEY environment variable is required")]
         ELSE [ok |-> TRUE, handle |-> built + 1, client |-> built + 1,
               built |-> built + 1, e |-> NoExc]
    ELSE [ok |-> TRUE, handle |-> client, client |-> client, built |-> built,
          e |-> NoExc]

get_default_model(e) == Getenv(e, "OPENAI_MODEL", "gpt-4o-mini")

get_default_image_model(e) == Getenv(e, "IMAGE_MODEL", "gemini-3-pro-image-preview")

-----------------------------------------------------------------------------
(* services.py: chat *)

Success(content, model) == [success |-> TRUE, content |-> content, model |-> model]
Failure(error, model) == [success |-> FALSE, error |-> error, model |-> model]

\* The message list of the request (lines 47-50).
chat_messages(args) ==
    (IF args.system_prompt # None /\ args.system_prompt # ""
     THEN <<[role |-> "system", content |-> args.system_prompt]>>
     ELSE <<>>)
    \o <<[role |-> "user", content |-> args.message]>>

\* A mutant of chat_kwargs: the temperature is tested for truth, so 0.0 is
\* dropped.
chat_kwargs_truthy(args, model_name) ==
    IF args.temperature \notin {None, "0.0"}
    THEN [model |-> model_name, messages |-> chat_messages(args),
          temperature |-> args.temperature]
    ELSE [model |-> model_name, messages |-> chat_messages(args)]

\* The keyword arguments of the request (lines 52-54).
chat_kwargs(args, model_name) ==
    IF args.temperature # None
    THEN [model |-> model_name, messages |-> chat_messages(args),
          temperature |-> args.temperature]
    ELSE [model |-> model_name, messages |-> chat_messages(args)]

\* chat's except clause (lines 63-64).
chat_except(args, e) == Ret(Failure(e.text, StrOr(args.model, "unknown")))

\* chat after the awaited call: outcome is the response returned or the
\* exception raised by client.chat.completions.create (lines 56-64).
chat_after_call(args, model_name, outcome) ==
    LET failed(x) == [result |-> chat_except(args, x), caught |-> x]
        \* Line 60: the content attribute of the message.
        with_content(content) ==
            IF content.k = "raise" THEN failed(content.e)
            ELSE [result |-> Ret(Success(content.v, model_name)), caught |-> NoExc]
        with_message(message) ==
            IF message.k = "raise" THEN failed(message.e)
            ELSE with_content(GetAttr(message.v, "content"))
    IN
    IF outcome.k = "raise" THEN failed(outcome.e)
    ELSE with_message(MessageOf(outcome.v))

-----------------------------------------------------------------------------
(* r2_storage.py *)

required_vars ==
    {"R2_ACCOUNT_ID", "R2_ACCESS_KEY_ID", "R2_SECRET_ACCESS_KEY", "R2_BUCKET_NAME"}

is_r2_configured(e) == \A var \in required_vars : EnvSet(e, var)

\* upload_image_to_r2(image): put_ok says whether put_object succeeds.  The
\* image is saved as PNG, which every pixel mode allows; R2_PUBLIC_DOMAIN is
\* unset in every sample environment, so the public URL is the r2.dev one,
\* written as its fragments.
upload_image_to_r2(image, e, put_ok) ==
    IF ~is_r2_configured(e) THEN Raise(Exc("ValueError", "R2 is not configured"))
    ELSE IF image.t # "image"
    THEN Raise(Exc("AttributeError", "object has no attribute 'save'"))
    ELSE IF ~put_ok
    THEN Raise(Exc("ClientError", "An error occurred when calling the PutObject operation"))
    ELSE Ret(<<"https://", e["R2_BUCKET_NAME"], ".", e["R2_ACCOUNT_ID"], ".r2.dev/",
               "image_", image.id, ".png">>)

-----------------------------------------------------------------------------
(* image2base64, and services.py: generate *)

\* The pixel modes the JPEG encoder writes.
JpegModes == {"1", "L", "RGB", "RGBX", "CMYK", "YCbCr"}

\* image.save(buffered, format="JPEG", quality=85) and the base64 text of what
\* was written.
SaveJpeg(image) ==
    IF image.t # "image"
    THEN Raise(Exc("AttributeError", "object has no attribute 'save'"))
    ELSE IF image.mode \notin JpegModes
    THEN Raise(Exc("OSError", "cannot write mode RGBA as JPEG"))
    ELSE Ret(<<"/", "9", "j", "/", image.id>>)

image2base64(image) == SaveJpeg(image)

os_path_exists(path) == path \in DOMAIN FileSystem

JpegBase64 == <<"j", "p", "e", "g", ";", "b", "a", "s", "e", "6", "4", ",">>

\* One reference image that exists on disk, as a content part (lines 101-116).
\* Pixel sizes are not modelled, so the thumbnail step changes nothing here.
reference_part(img_path) ==
    LET opened == FileSystem[img_path]
        img == IF opened.mode \in {"RGBA", "P"} THEN PyImage(opened.id, "RGB") ELSE opened
        b64_data == SaveJpeg(img)
    IN
    IF opened.t # "image"
    THEN Raise(Exc("UnidentifiedImageError", "cannot identify image file"))
    ELSE IF b64_data.k = "raise" THEN b64_data
    ELSE Ret([type |-> "image_url",
              image_url |-> [url |-> DataImageSlash \o JpegBase64 \o b64_data.v]])

\* A mutant of reference_parts: a path that does not exist is an error.
RECURSIVE reference_parts_strict(_)
reference_parts_strict(reference_images) ==
    IF reference_images = <<>> THEN Ret(<<>>)
    ELSE IF ~os_path_exists(Head(reference_images))
    THEN Raise(Exc("FileNotFoundError", "No such file or directory"))
    ELSE LET part == reference_part(Head(reference_images))
             rest == reference_parts_strict(Tail(reference_images))
         IN
         IF part.k = "raise" THEN part
         ELSE IF rest.k = "raise" THEN rest
         ELSE Ret(<<part.v>> \o rest.v)

\* The parts appended for the reference images, in order (lines 98-116).  An
\* absent reference_images argument is the empty sequence.
RECURSIVE reference_parts(_)
reference_parts(reference_images) ==
    IF reference_images = <<>> THEN Ret(<<>>)
    ELSE IF ~os_path_exists(Head(reference_images))
    THEN reference_parts(Tail(reference_images))
    ELSE LET part == reference_part(Head(reference_images))
             rest == reference_parts(Tail(reference_images))
         IN
         IF part.k = "raise" THEN part
         ELSE IF rest.k = "raise" THEN rest
         ELSE Ret(<<part.v>> \o rest.v)

\* extra_body (lines 119-123).
extra_body(args) ==
    [name \in {"modalities"}
              \cup (IF StrOr(args.aspect_ratio, "") # "" THEN {"aspect_ratio"} ELSE {})
              \cup (IF StrOr(args.resolution, "") # "" THEN {"resolution"} ELSE {}) |->
        CASE name = "modalities" -> <<"image">>
          [] name = "aspect_ratio" -> args.aspect_ratio
          [] name = "resolution" -> args.resolution]

\* The request generate sends (lines 126-130).
generate_request(args, target_model, parts) ==
    [model |-> target_model,
     messages |-> <<[role |-> "user",
                     content |-> <<[type |-> "text", text |-> args.prompt]>> \o parts]>>,
     extra_body |-> extra_body(args)]

ImageSuccess(path, format, model) ==
    [success |-> TRUE, image_data |-> [path |-> path, format |-> format], model |-> model]

ImageSuccessWarning(path, format, model, warning) ==
    [success |-> TRUE, image_data |-> [path |-> path, format |-> format],
     model |-> model, warning |-> warning]

\* generate's except clause (lines 167-168).  It reads the local target_model,
\* which is unbound when get_async_client raised.
generate_except(target_model, e) ==
    IF target_model = Unbound
    THEN Raise(Exc("UnboundLocalError",
                   "cannot access local variable 'target_model' where it is not associated with a value"))
    ELSE Ret(Failure(e.text, StrOr(target_model, "unknown")))

\* A mutant of NoImage: the test for a missing image lets None through.
NoImageNever(image) == FALSE

\* not image (line 134).
NoImage(image) == ~Truthy(image)

\* generate after the awaited call (lines 126-168): outcome is what
\* client.chat.completions.create returned or raised, net whether URL fetches
\* succeed, put_ok whether put_object succeeds.  Gives the result, the
\* exception the outer except clause caught, the image extracted and the
\* upload attempts made.
generate_after_call(target_model, outcome, net, e, put_ok) ==
    LET failed(x, image, n) ==
            [result |-> generate_except(target_model, x), caught |-> x,
             image |-> image, uploads |-> n]
        done(r, image, n) ==
            [result |-> Ret(r), caught |-> NoExc, image |-> image, uploads |-> n]
        \* Lines 142-159: the upload, and the base64 fallback of its handler.
        stored(image, uploaded, b64) ==
            IF uploaded.k = "return"
            THEN done(ImageSuccess(uploaded.v, "url", target_model), image, 1)
            ELSE IF b64.k = "raise" THEN failed(b64.e, image, 1)
            ELSE done(ImageSuccessWarning(b64.v, "base64", target_model,
                                          <<"R2 upload failed: ", uploaded.e.text>>),
                      image, 1)
        \* Lines 160-166: R2 is not configured.
        inline(image, b64) ==
            IF b64.k = "raise" THEN failed(b64.e, image, 0)
            ELSE done(ImageSuccess(b64.v, "base64", target_model), image, 0)
        \* Lines 134-166.
        with_image(image) ==
            IF NoImage(image)
            THEN done(Failure("No image generated", target_model), image, 0)
            ELSE IF is_r2_configured(e)
            THEN stored(image, upload_image_to_r2(image, e, put_ok), image2base64(image))
            ELSE inline(image, image2base64(image))
        \* Line 133.
        extracted_to(found) ==
            IF found.k = "raise" THEN failed(found.e, PyNone, 0)
            ELSE with_image(found.v)
    IN
    IF outcome.k = "raise" THEN failed(outcome.e, PyNone, 0)
    ELSE extracted_to(extract(outcome.v, net).out)

-----------------------------------------------------------------------------
(* server.py: the module's global names and the chat tool. *)

Bind(ns, name, value) ==
    [n \in DOMAIN ns \cup {name} |-> IF n = name THEN value ELSE ns[n]]

\* What the name of a function decorated with @mcp.tool() is bound to.
Decorated(decorator, fn) == IF decorator = "function" THEN fn ELSE "FunctionTool"

\* The globals of server.py once the module has run: line 21 imports chat and
\* generate from services, lines 30-31 and 51-52 define the tools chat and
\* make_images, each definition binding its name anew.
ServerGlobals(decorator) ==
    LET imported == Bind(Bind(<<>>, "chat", "services.chat"), "generate", "services.generate")
        with_chat == Bind(imported, "chat", Decorated(decorator, "server.chat"))
    IN Bind(with_chat, "make_images", Decorated(decorator, "server.make_images"))

\* The tool's return statement (line 48).
tool_chat_return(result) ==
    IF result.success THEN [content |-> result.content]
    ELSE [text |-> <<"Error: ", result.error>>]

-----------------------------------------------------------------------------
(* The invocations. *)

Procs == 1..MaxCalls

IdleCall ==
    [kind |-> "idle", pc |-> "idle", args |-> <<>>, client |-> 0,
     model_name |-> Unbound, request |-> <<>>, outcome |-> Pending,
     image |-> PyNone, net |-> FALSE, put_ok |-> FALSE, uploads |-> 0, chat_calls |-> 0, depth |-> 0,
     caught |-> NoExc, result |-> Pending]

BuilderAtRest ==
    /\ resolved = Pending
    /\ resolved_again = Pending
    /\ prompt = [text |-> "", reference_images |-> <<>>]
    /\ built_message = Pending

ServicesAtRest ==
    /\ env = <<>>
    /\ tool_decorator = "function"
    /\ async_client = 0
    /\ constructed = 0
    /\ calls = [p \in Procs |-> IdleCall]

\* What a finished services.chat hands to whoever called it: the host, or the
\* chat tool, which formats it.
Returned(c, result) ==
    IF c.kind = "tool_chat" /\ result.k = "return"
    THEN Ret(tool_chat_return(result.v))
    ELSE result

\* The host (or a test) calls services.chat.
InvokeChat(p, args) ==
    /\ calls[p].pc = "idle"
    /\ calls' = [calls EXCEPT ![p] =
            [IdleCall EXCEPT !.kind = "chat", !.pc = "entered", !.args = args,
                             !.chat_calls = 1]]
    /\ UNCHANGED <<env, tool_decorator, async_client, constructed>>
    /\ UNCHANGED harness_vars

\* chat from its first line to the awaited call (lines 43-56).
ChatStart(p) ==
    LET c == calls[p]
        got == get_async_client(async_client, constructed, env)
        model_name == StrOr(c.args.model, get_default_model(env))
    IN
    /\ c.pc = "entered"
    /\ c.kind \in {"chat", "tool_chat"}
    /\ async_client' = got.client
    /\ constructed' = got.built
    /\ calls' = [calls EXCEPT ![p] =
            IF ~got.ok
            THEN [c EXCEPT !.pc = "done", !.caught = got.e,
                           !.result = Returned(c, chat_except(c.args, got.e))]
            ELSE [c EXCEPT !.pc = "awaiting", !.client = got.handle,
                           !.model_name = model_name,
                           !.request = chat_kwargs(c.args, model_name)]]
    /\ UNCHANGED <<env, tool_decorator>>
    /\ UNCHANGED harness_vars

\* chat from the completion of the awaited call to its return (lines 56-64).
ChatResume(p, outcome) ==
    LET c == calls[p]
        finished(after) ==
            [c EXCEPT !.pc = "done", !.outcome = outcome, !.caught = after.caught,
                      !.result = Returned(c, after.result)]
    IN
    /\ c.pc = "awaiting"
    /\ c.kind \in {"chat", "tool_chat"}
    /\ calls' = [calls EXCEPT ![p] =
            finished(chat_after_call(c.args, c.model_name, outcome))]
    /\ UNCHANGED <<env, tool_decorator, async_client, constructed>>
    /\ UNCHANGED harness_vars

\* The host (or a test) calls services.generate.
InvokeGenerate(p, args) ==
    /\ calls[p].pc = "idle"
    /\ calls' = [calls EXCEPT ![p] =
            [IdleCall EXCEPT !.kind = "generate", !.pc = "entered", !.args = args]]
    /\ UNCHANGED <<env, tool_decorator, async_client, constructed>>
    /\ UNCHANGED harness_vars

\* generate from its first line to the awaited call (lines 90-130).
GenerateStart(p) ==
    LET c == calls[p]
        got == get_async_client(async_client, constructed, env)
        target_model == StrOr(c.args.model, get_default_image_model(env))
        parts == reference_parts(c.args.reference_images)
    IN
    /\ c.pc = "entered"
    /\ c.kind = "generate"
    /\ async_client' = got.client
    /\ constructed' = got.built
    /\ calls' = [calls EXCEPT ![p] =
            IF ~got.ok
            THEN [c EXCEPT !.pc = "done", !.caught = got.e,
                           !.result = generate_except(Unbound, got.e)]
            ELSE IF parts.k = "raise"
            THEN [c EXCEPT !.pc = "done", !.client = got.handle,
                           !.model_name = target_model, !.caught = parts.e,
                           !.result = generate_except(target_model, parts.e)]
            ELSE [c EXCEPT !.pc = "awaiting", !.client = got.handle,
                           !.model_name = target_model,
                           !.request = generate_request(c.args, target_model, parts.v)]]
    /\ UNCHANGED <<env, tool_decorator>>
    /\ UNCHANGED harness_vars

\* generate from the completion of the awaited call to its return (lines
\* 126-168); the extraction, the upload and the encoding do not await.
GenerateResume(p, outcome, net, put_ok) ==
    LET c == calls[p]
        finished(after) ==
            [c EXCEPT !.pc = "done", !.outcome = outcome, !.net = net, !.put_ok = put_ok,
                      !.image = after.image, !.uploads = after.uploads,
                      !.caught = after.caught, !.result = after.result]
    IN
    /\ c.pc = "awaiting"
    /\ c.kind = "generate"
    /\ calls' = [calls EXCEPT ![p] =
            finished(generate_after_call(c.model_name, outcome, net, env, put_ok))]
    /\ UNCHANGED <<env, tool_decorator, async_client, constructed>>
    /\ UNCHANGED harness_vars

\* The host calls the tool chat of server.py.
InvokeToolChat(p, args) ==
    /\ calls[p].pc = "idle"
    /\ calls' = [calls EXCEPT ![p] =
            [IdleCall EXCEPT !.kind = "tool_chat", !.pc = "tool", !.args = args,
                             !.depth = 1]]
    /\ UNCHANGED <<env, tool_decorator, async_client, constructed>>
    /\ UNCHANGED harness_vars

\* The body of the tool chat evaluates chat(message=..., model=...,
\* system_prompt=...) (lines 43-47): the name chat is looked up in the
\* module's globals and what it is bound to is called.
ToolChatCall(p) ==
    LET c == calls[p]
        callee == ServerGlobals(tool_decorator)["chat"]
    IN
    /\ c.pc = "tool"
    /\ c.kind = "tool_chat"
    /\ calls' = [calls EXCEPT ![p] =
            IF callee = "services.chat"
            THEN [c EXCEPT !.pc = "entered", !.chat_calls = c.chat_calls + 1]
            ELSE IF callee = "server.chat"
            THEN IF c.depth >= MaxDepth
                 THEN [c EXCEPT !.pc = "done",
                          !.result = Raise(Exc("RecursionError",
                                               "maximum recursion depth exceeded"))]
                 ELSE [c EXCEPT !.depth = c.depth + 1]
            ELSE [c EXCEPT !.pc = "done",
                     !.result = Raise(Exc("TypeError",
                                          "'FunctionTool' object is not callable"))]]
    /\ UNCHANGED <<env, tool_decorator, async_client, constructed>>
    /\ UNCHANGED harness_vars

-----------------------------------------------------------------------------
(* The classifier harness: from_string applied to sample strings. *)

Pieces == {<<" ">>, <<"\n">>, <<"x">>, DataImageSlash, HttpScheme, HttpsScheme}

RECURSIVE Concat(_)
Concat(ps) == IF ps = <<>> THEN <<>> ELSE Head(ps) \o Concat(Tail(ps))

SampleStrings ==
    {Concat(ps) : ps \in UNION {[1..n -> Pieces] : n \in 0..MaxPieces}}

InitClassify ==
    /\ source_str \in SampleStrings
    /\ classified = Pending
    /\ api_response = PyNone
    /\ net_up = FALSE
    /\ extracted = Pending
    /\ ServicesAtRest
    /\ BuilderAtRest

Classify ==
    /\ classified = Pending
    /\ classified' = from_string(PyStr(source_str))
    /\ UNCHANGED <<source_str, api_response, net_up, extracted>>
    /\ UNCHANGED service_vars
    /\ UNCHANGED builder_vars

NextClassify == Classify

SpecClassify == InitClassify /\ [][NextClassify]_vars

-----------------------------------------------------------------------------
(* The extractor harness: extract applied to sample responses. *)

\* An attribute the object does not have.
PyAbsent == [t |-> "absent"]

\* A data:image/ URL with no comma in it.
NoCommaUrl == DataImageSlash \o <<"p", "n", "g">>

\* Entries of a message's images list.  Images-field entries carry image 1
\* (or image 3, from the web), content carries image 2.
ImageEntries ==
    {PyStr(DataUrl("1")),
     PyDict([image_url |-> PyStr(DataUrl("1"))]),
     PyDict([url |-> PyStr(WebUrl)]),
     PyDict([image_url |-> PyStr(NoCommaUrl)]),
     PyDict([image_url |-> PyDict([url |-> PyStr(DataUrl("1"))])])}

SeqsUpTo(S, n) == UNION {[1..m -> S] : m \in 0..n}

ImagesOptions ==
    {PyAbsent, PyNone, PyInt(1)} \cup {PyList(l) : l \in SeqsUpTo(ImageEntries, MaxItems)}

ContentItems ==
    {PyStr(<<"x">>),
     PyDict([image_url |-> PyStr(DataUrl("2"))]),
     PyDict([image_url |-> PyDict([url |-> PyStr(DataUrl("2"))])]),
     PyDict([inline_data |-> PyDict([data |-> PyStr(Payload("2", 0))])]),
     PyDict([image_url |-> PyStr(NoCommaUrl),
             inline_data |-> PyDict([data |-> PyStr(Payload("2", 0))])])}

MdOpen == <<"!", "[", "a", "]", "(">>

ContentStrings ==
    {<<"h", "i">>,
     DataUrl("2"),
     NoCommaUrl,
     <<"s", "e", "e", " ">> \o MdOpen \o DataUrl("2") \o <<")">>,
     MdOpen \o NoCommaUrl \o <<")">>,
     Payload("2", RawBase64MinLen - 2),
     Payload("2", RawBase64MinLen - 1),
     [x \in 1..(RawBase64MinLen + 1) |-> "x"]}
    \cup {ToJson(doc) : doc \in JsonDocuments}

ContentOptions ==
    {PyAbsent, PyNone}
    \cup {PyStr(s) : s \in ContentStrings}
    \cup {PyList(l) : l \in SeqsUpTo(ContentItems, MaxItems)}

Message(images, content) ==
    PyObj([name \in {n \in {"images", "content"} :
                        (n = "images" /\ images # PyAbsent)
                        \/ (n = "content" /\ content # PyAbsent)} |->
              IF name = "images" THEN images ELSE content])

\* A response of the SDK (it has model_dump) and a plain object (it has not).
SdkResponse(choices) == PyObj([choices |-> choices, model_dump |-> PyNone])
PlainResponse(choices) == PyObj([choices |-> choices])

SampleResponses ==
    {SdkResponse(PyList(<<PyObj([message |-> Message(i, c)])>>)) :
        i \in ImagesOptions, c \in ContentOptions}
    \cup {PlainResponse(PyList(<<PyObj([message |-> Message(PyAbsent, c)])>>)) :
        c \in ContentOptions}
    \cup {PyNone,
          PyObj(<<>>),
          PlainResponse(PyNone),
          PlainResponse(PyList(<<>>)),
          SdkResponse(PyList(<<>>)),
          PlainResponse(PyList(<<PyNone>>)),
          PlainResponse(PyList(<<PyObj(<<>>)>>)),
          SdkResponse(PyList(<<PyObj([message |-> PyNone])>>))}

InitExtract ==
    /\ api_response \in SampleResponses
    /\ net_up \in BOOLEAN
    /\ extracted = Pending
    /\ source_str = <<>>
    /\ classified = Pending
    /\ ServicesAtRest
    /\ BuilderAtRest

Extract ==
    /\ extracted = Pending
    /\ extracted' = extract(api_response, net_up)
    /\ UNCHANGED <<source_str, classified, api_response, net_up>>
    /\ UNCHANGED service_vars
    /\ UNCHANGED builder_vars

NextExtract == Extract

SpecExtract == InitExtract /\ [][NextExtract]_vars

-----------------------------------------------------------------------------
(* The resolver harness: resolve applied to sample sources, and to its own
   result. *)

TildePng == <<"~", "/", "r", ".", "p", "n", "g">>
SecureUrl == <<"h", "t", "t", "p", "s", ":", "/", "/", "a", ".", "i", "o">>

ReferenceTexts ==
    {<<>>, <<".">>, WebUrl, SecureUrl, DataUrl("1"), RefPng, RefRgba, RefTxt,
     MissingPng, TildePng}

Padding == {<<>>, <<" ">>, <<"\n">>}

SampleReferences ==
    {left \o text \o right : left \in Padding, text \in ReferenceTexts, right \in Padding}

InitResolve ==
    /\ source_str \in SampleReferences
    /\ classified = Pending
    /\ api_response = PyNone
    /\ net_up = FALSE
    /\ extracted = Pending
    /\ ServicesAtRest
    /\ BuilderAtRest

Resolve ==
    /\ resolved = Pending
    /\ resolved' = resolve(source_str)
    /\ UNCHANGED <<source_str, classified, api_response, net_up, extracted>>
    /\ UNCHANGED <<resolved_again, prompt, built_message>>
    /\ UNCHANGED service_vars

ResolveAgain ==
    /\ resolved # Pending
    /\ resolved.k = "return"
    /\ resolved_again = Pending
    /\ resolved_again' = resolve(resolved.v)
    /\ UNCHANGED <<source_str, classified, api_response, net_up, extracted>>
    /\ UNCHANGED <<resolved, prompt, built_message>>
    /\ UNCHANGED service_vars

NextResolve == Resolve \/ ResolveAgain

SpecResolve == InitResolve /\ [][NextResolve]_vars

-----------------------------------------------------------------------------
(* The builder harness: build applied to sample prompts. *)

BuildReferences ==
    {<<>>, <<" ">>, WebUrl, <<" ">> \o WebUrl, DataUrl("1"), RefPng, RefTxt, MissingPng}

SamplePrompts ==
    [text : {"a cat"}, reference_images : SeqsUpTo(BuildReferences, MaxRefs)]

InitBuild ==
    /\ prompt \in SamplePrompts
    /\ built_message = Pending
    /\ resolved = Pending
    /\ resolved_again = Pending
    /\ source_str = <<>>
    /\ classified = Pending
    /\ api_response = PyNone
    /\ net_up = FALSE
    /\ extracted = Pending
    /\ ServicesAtRest

Build ==
    /\ built_message = Pending
    /\ built_message' = build(prompt)
    /\ UNCHANGED <<source_str, classified, api_response, net_up, extracted>>
    /\ UNCHANGED <<resolved, resolved_again, prompt>>
    /\ UNCHANGED service_vars

NextBuild == Build

SpecBuild == InitBuild /\ [][NextBuild]_vars

-----------------------------------------------------------------------------
(* The inputs of the service specifications. *)

EnvSamples ==
    {<<>>,
     [OPENAI_API_KEY |-> ""],
     [OPENAI_API_KEY |-> "sk-1"],
     [OPENAI_API_KEY |-> "sk-1", OPENAI_MODEL |-> "env-chat", IMAGE_MODEL |-> "env-image"],
     [OPENAI_API_KEY |-> "sk-1", R2_ACCOUNT_ID |-> "acct", R2_ACCESS_KEY_ID |-> "key",
      R2_SECRET_ACCESS_KEY |-> "secret", R2_BUCKET_NAME |-> "bucket"],
     [OPENAI_API_KEY |-> "sk-1", R2_ACCOUNT_ID |-> "acct", R2_ACCESS_KEY_ID |-> "key",
      R2_SECRET_ACCESS_KEY |-> "secret"],
     [OPENAI_API_KEY |-> "sk-1", R2_ACCOUNT_ID |-> "acct", R2_ACCESS_KEY_ID |-> "key",
      R2_SECRET_ACCESS_KEY |-> "secret", R2_BUCKET_NAME |-> ""]}

ChatArgs ==
    [message : {"hi"}, model : {None, "", "m"}, system_prompt : {None, "", "be brief"},
     temperature : {None, "0.0", "0.7"}]

ToolChatArgs ==
    [message : {"hi"}, model : {None, "m"}, system_prompt : {None, "be brief"},
     temperature : {None}]

GenerateArgs ==
    [prompt : {"a cat"},
     reference_images : SeqsUpTo({RefPng, RefRgba, RefTxt, MissingPng}, MaxRefs),
     aspect_ratio : {None, "16:9"}, resolution : {None, "", "2K"}, model : {None, "m"}]

\* What client.chat.completions.create does: it raises, or returns a response.
ApiError == Exc("APIConnectionError", "Connection error.")

TextResponse(content) ==
    SdkResponse(PyList(<<PyObj([message |-> PyObj([content |-> content])])>>))

ImagesResponse(images) ==
    SdkResponse(PyList(<<PyObj([message |-> PyObj([content |-> PyNone, images |-> images])])>>))

RemoteOutcomes ==
    {Raise(ApiError),
     Ret(TextResponse(PyStr(<<"h", "i">>))),
     Ret(TextResponse(PyNone)),
     Ret(TextResponse(PyStr(DataUrl("2")))),
     Ret(TextResponse(PyStr(DataUrl("3")))),
     Ret(ImagesResponse(PyList(<<PyDict([url |-> PyStr(WebUrl)])>>))),
     Ret(ImagesResponse(PyInt(1))),
     Ret(SdkResponse(PyList(<<>>))),
     Ret(PyObj(<<>>))}

InitServices ==
    /\ env \in EnvSamples
    /\ tool_decorator \in {"function", "FunctionTool"}
    /\ async_client = 0
    /\ constructed = 0
    /\ calls = [p \in Procs |-> IdleCall]
    /\ source_str = <<>>
    /\ classified = Pending
    /\ api_response = PyNone
    /\ net_up = FALSE
    /\ extracted = Pending
    /\ BuilderAtRest

\* One caller, every argument.
Next ==
    \/ \E args \in ChatArgs : InvokeChat(1, args)
    \/ ChatStart(1)
    \/ \E outcome \in RemoteOutcomes : ChatResume(1, outcome)
    \/ \E args \in GenerateArgs : InvokeGenerate(1, args)
    \/ GenerateStart(1)
    \/ \E outcome \in RemoteOutcomes, net \in BOOLEAN, put_ok \in BOOLEAN :
          GenerateResume(1, outcome, net, put_ok)
    \/ \E args \in ToolChatArgs : InvokeToolChat(1, args)
    \/ ToolChatCall(1)

Spec == InitServices /\ [][Next]_vars

\* Concurrent callers on one event loop: the steps of different invocations
\* interleave at their awaits, and nowhere else.
ConcChatArgs == {[message |-> "hi", model |-> None, system_prompt |-> None, temperature |-> None]}
ConcGenerateArgs ==
    {[prompt |-> "a cat", reference_images |-> <<>>, aspect_ratio |-> None,
      resolution |-> None, model |-> None]}
ConcOutcomes == {Raise(ApiError), Ret(TextResponse(PyStr(DataUrl("2"))))}

NextConc ==
    \E p \in Procs :
        \/ \E args \in ConcChatArgs : InvokeChat(p, args)
        \/ ChatStart(p)
        \/ \E outcome \in ConcOutcomes : ChatResume(p, outcome)
        \/ \E args \in ConcGenerateArgs : InvokeGenerate(p, args)
        \/ GenerateStart(p)
        \/ \E outcome \in ConcOutcomes : GenerateResume(p, outcome, TRUE, TRUE)

SpecConc == InitServices /\ [][NextConc]_vars

-----------------------------------------------------------------------------
(* Properties of the extractor, checked under SpecExtract. *)

\* The message extract works on, when response.choices[0].message is there.
HasMessage == MessageOf(api_response).k = "return"
TheMessage == MessageOf(api_response).v

\* Strategy s, run on its own on the response's message, yields an image.
Yields(s) ==
    LET r == RunStrategy(s, TheMessage, api_response, net_up) IN
    r.k = "return" /\ Truthy(r.v)

\* Strategy s, run on its own on the response's message, raises.
Raises(s) == RunStrategy(s, TheMessage, api_response, net_up).k = "raise"

PriorityOrder ==
    <<"extract_from_images_field", "extract_from_content_list",
      "extract_from_content_string", "extract_from_response_dict">>

\* C3: an exception inside one strategy is not fatal to extraction: extract
\* returns None only when none of the four strategies finds an image, and when
\* the images-field strategy raises while the string content is a valid
\* data:image URL, extract returns the image decoded from the content.
C3_StrategyErrorNotFatal ==
    (extracted # Pending /\ HasMessage) =>
        /\ extracted.out = Ret(PyNone) => \A i \in DOMAIN PriorityOrder : ~Yields(PriorityOrder[i])
        /\ ( /\ Raises("extract_from_images_field")
             /\ HasAttr(TheMessage, "content")
             /\ TheMessage.a.content.t = "str"
             /\ StartsWith(TheMessage.a.content.s, DataImage)
             /\ load_from_data_url(TheMessage.a.content.s).k = "return" )
           => extracted.out = load_from_data_url(TheMessage.a.content.s)

\* C4: extract never throws: whatever the response (no choices attribute, an
\* empty choices list, a first choice with no message, ...), it returns None
\* or an image.
C4_ExtractNeverThrows ==
    extracted # Pending =>
        /\ extracted.out.k = "return"
        /\ extracted.out.v = PyNone \/ extracted.out.v.t = "image"

\* C4 witness: extract has returned None for a response with no choices.
C4_Witness ==
    /\ extracted # Pending
    /\ ~HasAttr(api_response, "choices")
    /\ extracted.out = Ret(PyNone)

\* C5: the strategies run in the order images-field, structured-content,
\* string-content, raw-response-dictionary and extraction stops at the first
\* that yields an image: the strategies run are a prefix of that order, none
\* before the last yielded an image, the image returned is the one the last
\* strategy run yields, and an image the images-field strategy finds wins over
\* anything in the content.
C5_StrategyOrder ==
    (extracted # Pending /\ HasMessage) =>
        /\ \E n \in 0..Len(PriorityOrder) : extracted.ran = SubSeq(PriorityOrder, 1, n)
        /\ \A i \in 1..(Len(extracted.ran) - 1) : ~Yields(extracted.ran[i])
        /\ extracted.by # "none" =>
              /\ extracted.by = extracted.ran[Len(extracted.ran)]
              /\ extracted.out = RunStrategy(extracted.by, TheMessage, api_response, net_up)
              /\ extracted.out.v.t = "image"
        /\ Yields("extract_from_images_field") =>
              /\ extracted.ran = <<"extract_from_images_field">>
              /\ extracted.out = extract_from_images_field(TheMessage, net_up)

\* C5 witness: the message has an images entry that loads (image 1) and a
\* string content that is a data URL (of image 2); image 1 was returned and
\* only the images-field strategy ran.
C5_Witness ==
    /\ extracted # Pending
    /\ HasMessage
    /\ Yields("extract_from_images_field")
    /\ Yields("extract_from_content_string")
    /\ extracted.out = Ret(PyImage("1", "RGB"))
    /\ extracted.ran = <<"extract_from_images_field">>

\* The string strategy ran on a message whose content is a string.
StringStrategyRan ==
    /\ extracted # Pending
    /\ HasMessage
    /\ \E i \in DOMAIN extracted.ran : extracted.ran[i] = "extract_from_content_string"
    /\ HasAttr(TheMessage, "content")
    /\ TheMessage.a.content.t = "str"

\* What each probe of the string strategy, taken on its own, does with the
\* string s: the image it loads, or None when it fails or finds nothing.
OrNone(r) == IF r.k = "return" THEN r ELSE Ret(PyNone)
ProbeMarkdown(s) ==
    IF MarkdownMatch(s).found THEN OrNone(load_from_data_url(MarkdownMatch(s).url))
    ELSE Ret(PyNone)
ProbeDataUrl(s) ==
    IF StartsWith(s, DataImage) THEN OrNone(load_from_data_url(s)) ELSE Ret(PyNone)
ProbeJsonList(s) ==
    IF ParseJson(s).k = "return" /\ ParseJson(s).v.t = "list"
    THEN OrNone(extract_from_content_list(PyObj([content |-> ParseJson(s).v]), net_up))
    ELSE Ret(PyNone)
ProbeRawBase64(s) ==
    IF Len(s) > 100 THEN OrNone(load_from_base64(PyStr(s))) ELSE Ret(PyNone)

\* The first of the four probes, in their order, that gives an image.
FirstProbe(s) ==
    IF ProbeMarkdown(s) # Ret(PyNone) THEN ProbeMarkdown(s)
    ELSE IF ProbeDataUrl(s) # Ret(PyNone) THEN ProbeDataUrl(s)
    ELSE IF ProbeJsonList(s) # Ret(PyNone) THEN ProbeJsonList(s)
    ELSE ProbeRawBase64(s)

\* C15: on string content the string strategy tries the markdown link, the
\* data:image URL, the JSON list and the raw base64 decode in that order, a
\* probe that fails or finds nothing falling through to the next: the raw
\* decode is tried on every string longer than 100 characters in which the
\* first three found no image, and on no string of 100 characters or fewer.
C15_StringProbesFallThrough ==
    StringStrategyRan =>
        /\ extract_from_content_string(TheMessage, net_up) =
              FirstProbe(TheMessage.a.content.s)
        /\ FirstProbe(TheMessage.a.content.s) # Ret(PyNone) =>
              /\ extracted.out = FirstProbe(TheMessage.a.content.s)
              /\ extracted.by = "extract_from_content_string"

-----------------------------------------------------------------------------
(* Properties of the classifier, checked under SpecClassify. *)

IsBlank(s) == \A i \in 1..Len(s) : s[i] \in Whitespace

\* C6: from_string raises for every empty or whitespace-only string, so no
\* ImageSource with an empty source is produced; every other string gets
\* exactly one kind: base64 for the data:image/ prefix, else url for the
\* http:// and https:// prefixes, else file.
C6_BlankSourceRejected ==
    classified # Pending =>
        /\ IsBlank(source_str) =>
              classified.k = "raise" /\ classified.e.type = "ValueError"
        /\ classified.k = "return" => classified.v.source # <<>>
        /\ ~IsBlank(source_str) =>
              /\ classified.k = "return"
              /\ classified.v.source_type =
                    IF StartsWith(Strip(source_str), DataImageSlash) THEN "base64"
                    ELSE IF StartsWith(Strip(source_str), HttpScheme)
                            \/ StartsWith(Strip(source_str), HttpsScheme) THEN "url"
                    ELSE "file"

-----------------------------------------------------------------------------
(* Properties of the services, checked under Spec. *)

\* Invocation p has returned or raised.
Done(p, kind) == calls[p].kind = kind /\ calls[p].pc = "done"

\* C1: chat and generate never raise: every finished call has returned a
\* result with a success flag, and when an exception was raised on the way
\* (client construction included) the result is the Failure whose message is
\* the text of that exception.
C1_ServicesNeverRaise ==
    \A p \in Procs :
        (Done(p, "chat") \/ Done(p, "generate")) =>
            /\ calls[p].result.k = "return"
            /\ calls[p].result.v.success \in BOOLEAN
            /\ calls[p].caught # NoExc =>
                  /\ ~calls[p].result.v.success
                  /\ calls[p].result.v.error = calls[p].caught.text

\* C2: the tool chat ends after calling services.chat exactly once, and
\* returns the answer text on Success and "Error: " with the failure message
\* on Failure.
C2_ToolChatCallsServiceOnce ==
    \A p \in Procs :
        calls[p].kind = "tool_chat" =>
            /\ calls[p].depth <= 1
            /\ calls[p].pc = "done" =>
                  /\ calls[p].chat_calls = 1
                  /\ calls[p].result.k = "return"
                  /\ IF calls[p].caught = NoExc
                     THEN DOMAIN calls[p].result.v = {"content"}
                     ELSE calls[p].result.v = [text |-> <<"Error: ", calls[p].caught.text>>]

\* Invocation p of generate got an image out of the response while R2 was
\* configured.
ImageToStore(p) ==
    /\ Done(p, "generate")
    /\ calls[p].outcome.k = "return"
    /\ extract(calls[p].outcome.v, calls[p].net).out.v.t = "image"
    /\ is_r2_configured(env)

\* C7: with an image extracted and R2 configured, a failed upload gives
\* Success with a base64 location and a non-empty warning, and a successful
\* upload gives Success with a url location and no warning.
C7_UploadFailureNotFatal ==
    \A p \in Procs :
        ImageToStore(p) =>
            /\ calls[p].result.k = "return"
            /\ calls[p].result.v.success
            /\ IF calls[p].put_ok
               THEN /\ calls[p].result.v.image_data.format = "url"
                    /\ "warning" \notin DOMAIN calls[p].result.v
               ELSE /\ calls[p].result.v.image_data.format = "base64"
                    /\ "warning" \in DOMAIN calls[p].result.v
                    /\ calls[p].result.v.warning # <<>>

\* Invocation p of generate got a response in which the extractor finds no
\* image.
NothingExtracted(p) ==
    /\ Done(p, "generate")
    /\ calls[p].outcome.k = "return"
    /\ extract(calls[p].outcome.v, calls[p].net).out = Ret(PyNone)

\* C8: when the extractor finds no image in the response, generate returns
\* the Failure "No image generated" with the resolved target model, attempts
\* no upload and returns no image location.
C8_NoImageFailure ==
    \A p \in Procs :
        NothingExtracted(p) =>
            /\ calls[p].result =
                  Ret(Failure("No image generated",
                              StrOr(calls[p].args.model, get_default_image_model(env))))
            /\ calls[p].uploads = 0
            /\ "image_data" \notin DOMAIN calls[p].result.v

\* C8 witness: R2 is configured, the response of the remote call held no
\* image, and generate has returned the Failure without an upload.
C8_Witness ==
    \E p \in Procs :
        /\ NothingExtracted(p)
        /\ is_r2_configured(env)
        /\ calls[p].result.k = "return"
        /\ calls[p].result.v.error = "No image generated"
        /\ calls[p].uploads = 0

\* C9: a Failure of chat carries the model attempted: the model argument when
\* one was given, otherwise the default model resolved for the request, and
\* "unknown" only when no model was resolved.
C9_FailureCarriesAttemptedModel ==
    \A p \in Procs :
        (Done(p, "chat") /\ calls[p].result.k = "return" /\ ~calls[p].result.v.success) =>
            calls[p].result.v.model =
                IF calls[p].args.model \notin {None, ""} THEN calls[p].args.model
                ELSE IF calls[p].model_name # Unbound THEN calls[p].model_name
                ELSE "unknown"

\* The four R2 variables all have a value in the environment.
AllR2Present ==
    \A var \in {"R2_ACCOUNT_ID", "R2_ACCESS_KEY_ID", "R2_SECRET_ACCESS_KEY",
                 "R2_BUCKET_NAME"} :
        var \in DOMAIN env /\ env[var] # ""

\* Invocation p of generate got an image out of the response while R2 was not
\* configured.
ImageToInline(p) ==
    /\ Done(p, "generate")
    /\ calls[p].outcome.k = "return"
    /\ extract(calls[p].outcome.v, calls[p].net).out.v.t = "image"
    /\ ~is_r2_configured(env)

\* C11: R2 counts as configured exactly when its four variables are all
\* present, and when it is not configured a generate call that extracted an
\* image attempts no upload and returns Success with a base64 location and
\* no warning.
C11_UnconfiguredReturnsInline ==
    /\ is_r2_configured(env) <=> AllR2Present
    /\ \A p \in Procs :
          ImageToInline(p) =>
              /\ calls[p].uploads = 0
              /\ calls[p].result.k = "return"
              /\ calls[p].result.v.success
              /\ calls[p].result.v.image_data.format = "base64"
              /\ "warning" \notin DOMAIN calls[p].result.v

\* Invocation p of chat has sent its request.
ChatSent(p) == calls[p].kind = "chat" /\ calls[p].request # <<>>

\* C12: the request of chat has the messages [system, user] when a system
\* prompt was supplied and [user] otherwise, the user message last, and has a
\* temperature exactly when the caller supplied one, 0.0 included.
C12_ChatRequestShape ==
    \A p \in Procs :
        ChatSent(p) =>
            LET a == calls[p].args
                r == calls[p].request
                user == [role |-> "user", content |-> a.message]
            IN
            /\ r.messages =
                  IF a.system_prompt \notin {None, ""}
                  THEN <<[role |-> "system", content |-> a.system_prompt], user>>
                  ELSE <<user>>
            /\ r.messages[Len(r.messages)] = user
            /\ "temperature" \in DOMAIN r <=> a.temperature # None
            /\ a.temperature # None => r.temperature = a.temperature

\* C12 witness: a chat with a system prompt and temperature 0.0 is awaiting
\* the remote call, its request holding both messages and the temperature.
C12_Witness ==
    \E p \in Procs :
        /\ ChatSent(p)
        /\ calls[p].pc = "awaiting"
        /\ calls[p].args.system_prompt = "be brief"
        /\ calls[p].args.temperature = "0.0"
        /\ Len(calls[p].request.messages) = 2
        /\ calls[p].request.temperature = "0.0"

\* The reference paths of invocation p that exist on disk, in the order given.
ExistingReferences(p) ==
    SelectSeq(calls[p].args.reference_images, LAMBDA path : path \in DOMAIN FileSystem)

\* The data URL generate sends for the image file at path.
JpegDataUrl(path) ==
    DataImageSlash \o JpegBase64 \o <<"/", "9", "j", "/", FileSystem[path].id>>

\* C14: the content generate sends is a text part and then one data-URL image
\* part for each reference path that exists, in the order given, a path that
\* does not exist being skipped without error; extra_body always has
\* modalities = ["image"], and aspect_ratio and resolution only when given.
C14_GenerateRequestContent ==
    \A p \in Procs :
        LET a == calls[p].args
            r == calls[p].request
            existing == ExistingReferences(p)
        IN
        /\ (calls[p].kind = "generate" /\ r # <<>>) =>
              /\ Len(r.messages) = 1
              /\ r.messages[1].role = "user"
              /\ Len(r.messages[1].content) = 1 + Len(existing)
              /\ r.messages[1].content[1] = [type |-> "text", text |-> a.prompt]
              /\ \A i \in DOMAIN existing :
                    r.messages[1].content[i + 1] =
                        [type |-> "image_url",
                         image_url |-> [url |-> JpegDataUrl(existing[i])]]
              /\ r.extra_body.modalities = <<"image">>
              /\ DOMAIN r.extra_body \subseteq {"modalities", "aspect_ratio", "resolution"}
              /\ \A name \in {"aspect_ratio", "resolution"} :
                    /\ name \in DOMAIN r.extra_body <=> a[name] \notin {None, ""}
                    /\ name \in DOMAIN r.extra_body => r.extra_body[name] = a[name]
        /\ ( /\ calls[p].kind = "generate"
             /\ calls[p].client # 0
             /\ \A i \in DOMAIN existing : FileSystem[existing[i]].t = "image" )
           => r # <<>>

\* C14 witness: generate is awaiting the remote call, having sent a text part
\* and one image part for the references <<missing path, RGBA file>>, with
\* the aspect ratio given.
C14_Witness ==
    \E p \in Procs :
        /\ calls[p].kind = "generate"
        /\ calls[p].pc = "awaiting"
        /\ calls[p].args.reference_images = <<MissingPng, RefRgba>>
        /\ calls[p].args.aspect_ratio = "16:9"
        /\ Len(calls[p].request.messages[1].content) = 2
        /\ calls[p].request.extra_body.aspect_ratio = "16:9"

-----------------------------------------------------------------------------
(* Properties of concurrent invocations, checked under SpecConc. *)

\* C10: the client is constructed at most once: over every interleaving of
\* chat and generate invocations the constructor has run at most one time,
\* every invocation holding a handle holds the same one, and it is the one the
\* global still holds.
C10_ClientConstructedOnce ==
    /\ constructed <= 1
    /\ async_client \in {0, 1}
    /\ \A p \in Procs : calls[p].client # 0 => calls[p].client = async_client
    /\ \A p, q \in Procs :
          (calls[p].client # 0 /\ calls[q].client # 0) => calls[p].client = calls[q].client

\* C10 witness: a chat and a generate are both awaiting the remote call, each
\* holding the handle of the one construction.
C10_Witness ==
    \E p, q \in Procs :
        /\ calls[p].kind = "chat" /\ calls[p].pc = "awaiting"
        /\ calls[q].kind = "generate" /\ calls[q].pc = "awaiting"
        /\ calls[p].client = 1 /\ calls[q].client = 1
        /\ constructed = 1


-----------------------------------------------------------------------------
(* Properties of the builder, checked under SpecBuild. *)

\* The kind from_string gives reference r: "url", "base64", "file", or
\* "invalid" when it raises.
KindOf(r) ==
    LET kind(src) == IF src.k = "raise" THEN "invalid" ELSE src.v.source_type
    IN kind(from_string(PyStr(r)))

\* Reference r is a file path and no file is at that path.
MissingFile(r) ==
    KindOf(r) = "file" /\ ExpandUser(Strip(r)) \notin DOMAIN FileSystem

\* build returned a user message: a text part and then one image_url part
\* for each reference, in the order given.
OnePartPerReference ==
    (built_message # Pending /\ built_message.k = "return") =>
        /\ built_message.v.role = "user"
        /\ Len(built_message.v.content) = 1 + Len(prompt.reference_images)
        /\ built_message.v.content[1] = [type |-> "text", text |-> prompt.text]
        /\ \A i \in DOMAIN prompt.reference_images :
              /\ built_message.v.content[i + 1].type = "image_url"
              /\ built_message.v.content[i + 1].image_url.url =
                    resolve(prompt.reference_images[i]).v

\* build fails with FileNotFoundError, and gives no message, when a reference
\* is a path with no file and every reference before it resolves.
MissingFileFails ==
    built_message # Pending =>
        \A i \in DOMAIN prompt.reference_images :
            MissingFile(prompt.reference_images[i]) =>
                /\ built_message.k = "raise"
                /\ (\A j \in 1..(i - 1) : resolve(prompt.reference_images[j]).k = "return")
                      => built_message.e.type = "FileNotFoundError"

\* C13, as stated: build returns a text part and then one image_url part per
\* reference, in order, 1 plus the number of references in all; a url or
\* data-URL reference is passed through unchanged; a file reference whose file
\* is missing makes build fail with FileNotFoundError and give no message.
C13_ReferencesPassedUnchanged ==
    /\ OnePartPerReference
    /\ MissingFileFails
    /\ (built_message # Pending /\ built_message.k = "return") =>
          \A i \in DOMAIN prompt.reference_images :
              KindOf(prompt.reference_images[i]) \in {"url", "base64"} =>
                  built_message.v.content[i + 1].image_url.url = prompt.reference_images[i]

\* C13, amended: as stated, except that a url or data-URL reference is passed
\* through with the whitespace around it removed (unchanged when it has none).
C13_ReferencesPassedStripped ==
    /\ OnePartPerReference
    /\ MissingFileFails
    /\ (built_message # Pending /\ built_message.k = "return") =>
          \A i \in DOMAIN prompt.reference_images :
              KindOf(prompt.reference_images[i]) \in {"url", "base64"} =>
                  built_message.v.content[i + 1].image_url.url =
                      Strip(prompt.reference_images[i])

\* C13 witness: build has returned three parts for a file and a URL with a
\* space before it, the URL part without the space.
C13_Witness ==
    /\ built_message # Pending
    /\ built_message.k = "return"
    /\ prompt.reference_images = <<RefPng, <<" ">> \o WebUrl>>
    /\ Len(built_message.v.content) = 3
    /\ built_message.v.content[3].image_url.url = WebUrl

-----------------------------------------------------------------------------
(* Properties of the resolver, checked under SpecResolve. *)

\* C16: resolve is idempotent on its own output: the string it returns is
\* classified by from_string as a url or a data URL, never as a file path, so
\* resolve applied to it returns it unchanged, whatever file the data URL was
\* built from.
C16_ResolveIdempotent ==
    (resolved # Pending /\ resolved.k = "return") =>
        /\ KindOf(resolved.v) \in {"url", "base64"}
        /\ resolved_again # Pending => resolved_again = Ret(resolved.v)

=============================================================================
